---------------------------- MODULE Spec2Model ----------------------------
(***************************************************************************)
(* pelicanconf.py: the settings module of the "HATE THAT CODE" site.       *)
(*                                                                         *)
(* The module is a straight-line list of top-level assignments.  Loading   *)
(* it is compiling the file and executing these statements against a       *)
(* fresh module namespace, one statement at a time; the result (the Site   *)
(* Configuration Record) is the namespace once every statement has run.    *)
(* Line 3 is a compiler directive (`from __future__ import ...`): a file   *)
(* in which a statement precedes it does not compile.  The generator then  *)
(* looks settings up in the namespace by name.                             *)
(***************************************************************************)
EXTENDS Integers, Sequences, FiniteSets

VARIABLES
    ns,          \* ns[l][name]: the namespace of load l (Unbound: no binding)
    todo,        \* todo[l]: indices of the statements load l has not run yet
    err,         \* err[l]: "" or the exception that stopped load l
    outOfOrder,  \* outOfOrder[l]: load l has run a statement ahead of an earlier one
    lookup       \* the generator's last lookup, or NoLookup

vars == <<ns, todo, err, outOfOrder, lookup>>

---------------------------------------------------------------------------
(* Python values, tagged with their type.                                  *)

\* `from __future__ import unicode_literals`: every '...' literal is unicode
PyStr(s) == [type |-> "unicode", v |-> s]
PyInt(n) == [type |-> "int", v |-> n]
PyBool(b) == [type |-> "bool", v |-> b]
PyNone == [type |-> "NoneType", v |-> "None"]
PyTuple(seq) == [type |-> "tuple", v |-> seq]
PyDict(f) == [type |-> "dict", v |-> f]
Feature(n) == [type |-> "_Feature", v |-> n]

\* the absence of a binding in a namespace (not a Python value)
Unbound == [type |-> "unbound", v |-> "unbound"]

\* a (label, url) entry of LINKS / SOCIAL
Pair(a, b) == PyTuple(<<PyStr(a), PyStr(b)>>)

---------------------------------------------------------------------------
(* The statements of the file, section by section.  A statement binds      *)
(* `target` to the value of `expr`; an expression is a literal, a          *)
(* reference to another name of the namespace, or the feature object a     *)
(* `from __future__ import` binds.                                         *)

Lit(val) == [kind |-> "lit", value |-> val, id |-> ""]
FutureImport(feature) == [kind |-> "future", value |-> Feature(feature), id |-> ""]
Ref(name) == [kind |-> "name", value |-> Unbound, id |-> name]
Assign(ln, name, e) == [line |-> ln, target |-> name, expr |-> e]

Header ==
    << Assign(3, "unicode_literals", FutureImport("unicode_literals")) >>

\* a later statement that overrides SITEURL with the published address
SiteMetadataRebindsSiteurl ==
    << Assign(5, "AUTHOR", Lit(PyStr("José San Gil"))),
       Assign(6, "SITENAME", Lit(PyStr("HATE THAT CODE"))),
       Assign(7, "SITESUBTITLE", Lit(PyStr("by josé san gil"))),
       Assign(8, "SITEURL", Lit(PyStr(""))),
       Assign(10, "PATH", Lit(PyStr("content"))),
       Assign(12, "TIMEZONE", Lit(PyStr("Europe/Madrid"))),
       Assign(14, "DEFAULT_LANG", Lit(PyStr("en"))),
       Assign(15, "SITEURL", Lit(PyStr("http://hatethatcode.com"))) >>

\* the subtitle taken from AUTHOR instead of written out
SiteMetadataSubtitleFromAuthor ==
    << Assign(5, "AUTHOR", Lit(PyStr("José San Gil"))),
       Assign(6, "SITENAME", Lit(PyStr("HATE THAT CODE"))),
       Assign(7, "SITESUBTITLE", Ref("AUTHOR")),
       Assign(8, "SITEURL", Lit(PyStr(""))),
       Assign(10, "PATH", Lit(PyStr("content"))),
       Assign(12, "TIMEZONE", Lit(PyStr("Europe/Madrid"))),
       Assign(14, "DEFAULT_LANG", Lit(PyStr("en"))) >>

SiteMetadata ==
    << Assign(5, "AUTHOR", Lit(PyStr("José San Gil"))),
       Assign(6, "SITENAME", Lit(PyStr("HATE THAT CODE"))),
       Assign(7, "SITESUBTITLE", Lit(PyStr("by josé san gil"))),
       Assign(8, "SITEURL", Lit(PyStr(""))),
       Assign(10, "PATH", Lit(PyStr("content"))),
       Assign(12, "TIMEZONE", Lit(PyStr("Europe/Madrid"))),
       Assign(14, "DEFAULT_LANG", Lit(PyStr("en"))) >>

\* the feed block left as the generator's stock path for the first feed
FeedSettingsAllAtomEnabled ==
    << Assign(17, "FEED_ALL_ATOM", Lit(PyStr("feeds/all.atom.xml"))),
       Assign(18, "CATEGORY_FEED_ATOM", Lit(PyNone)),
       Assign(19, "TRANSLATION_FEED_ATOM", Lit(PyNone)),
       Assign(20, "AUTHOR_FEED_ATOM", Lit(PyNone)),
       Assign(21, "AUTHOR_FEED_RSS", Lit(PyNone)) >>

\* the feed block without its last line
FeedSettingsWithoutAuthorRss ==
    << Assign(17, "FEED_ALL_ATOM", Lit(PyNone)),
       Assign(18, "CATEGORY_FEED_ATOM", Lit(PyNone)),
       Assign(19, "TRANSLATION_FEED_ATOM", Lit(PyNone)),
       Assign(20, "AUTHOR_FEED_ATOM", Lit(PyNone)) >>

FeedSettings ==
    << Assign(17, "FEED_ALL_ATOM", Lit(PyNone)),
       Assign(18, "CATEGORY_FEED_ATOM", Lit(PyNone)),
       Assign(19, "TRANSLATION_FEED_ATOM", Lit(PyNone)),
       Assign(20, "AUTHOR_FEED_ATOM", Lit(PyNone)),
       Assign(21, "AUTHOR_FEED_RSS", Lit(PyNone)) >>

Analytics ==
    << Assign(25, "GOOGLE_ANALYTICS", Lit(PyStr("UA-11146701-2"))) >>

\* SOCIAL's first entry without its url, and its last entry written without
\* the inner pair: ('Another social link') is a string
LinkListsMalformed ==
    << Assign(28, "LINKS", Lit(PyTuple(<<
           Pair("Pelican", "http://getpelican.com/"),
           Pair("Python.org", "http://python.org/"),
           Pair("Jinja2", "http://jinja.pocoo.org/"),
           Pair("You can modify those links in your config file", "#") >>))),
       Assign(34, "SOCIAL", Lit(PyTuple(<<
           Pair("You can add links in your config file", ""),
           PyStr("Another social link") >>))) >>

LinkLists ==
    << Assign(28, "LINKS", Lit(PyTuple(<<
           Pair("Pelican", "http://getpelican.com/"),
           Pair("Python.org", "http://python.org/"),
           Pair("Jinja2", "http://jinja.pocoo.org/"),
           Pair("You can modify those links in your config file", "#") >>))),
       Assign(34, "SOCIAL", Lit(PyTuple(<<
           Pair("You can add links in your config file", "#"),
           Pair("Another social link", "#") >>))) >>

\* pagination switched off with a zero
DisplayNoPagination ==
    << Assign(37, "DEFAULT_PAGINATION", Lit(PyInt(0))),
       Assign(41, "DISPLAY_PAGES_ON_MENU", Lit(PyBool(FALSE))),
       Assign(43, "THEME", Lit(PyStr("themes/hatethatcode"))) >>

Display ==
    << Assign(37, "DEFAULT_PAGINATION", Lit(PyInt(10))),
       Assign(41, "DISPLAY_PAGES_ON_MENU", Lit(PyBool(FALSE))),
       Assign(43, "THEME", Lit(PyStr("themes/hatethatcode"))) >>

\* the setting spelled the way the generator spells it
DefaultMetadataSpelledRight ==
    << Assign(45, "DEFAULT_METADATA",
              Lit(PyDict([k \in {"status"} |-> PyStr("draft")]))) >>

\* the status misspelled
DefaultMetadataBadStatus ==
    << Assign(45, "DEFAUT_METADATA",
              Lit(PyDict([k \in {"status"} |-> PyStr("drafts")]))) >>

DefaultMetadata ==
    << Assign(45, "DEFAUT_METADATA",
              Lit(PyDict([k \in {"status"} |-> PyStr("draft")]))) >>

Program ==
    Header \o SiteMetadata \o FeedSettings \o Analytics \o LinkLists
           \o Display \o DefaultMetadata

Stmts == DOMAIN Program

---------------------------------------------------------------------------
(* The generator's side of the interface: the names it looks up.           *)

GeneratorNames ==
    { "AUTHOR", "SITENAME", "SITESUBTITLE", "SITEURL", "PATH", "TIMEZONE",
      "DEFAULT_LANG", "FEED_ALL_ATOM", "CATEGORY_FEED_ATOM",
      "TRANSLATION_FEED_ATOM", "AUTHOR_FEED_ATOM", "AUTHOR_FEED_RSS",
      "GOOGLE_ANALYTICS", "LINKS", "SOCIAL", "DEFAULT_PAGINATION",
      "DISPLAY_PAGES_ON_MENU", "THEME", "DEFAULT_METADATA" }

\* every name a namespace may be asked about
Names ==
    {Program[i].target : i \in Stmts}
        \cup {Program[i].expr.id : i \in {j \in Stmts : Program[j].expr.kind = "name"}}
        \cup GeneratorNames

\* the loads of the file: load 1 and load 2 are independent of each other
Loads == {1, 2}

\* how many of the earliest pending statements a reordered load may pick from
OrderWindow == 3

---------------------------------------------------------------------------
(* Executing the file.                                                     *)

\* the names an expression reads
Refs(e) == IF e.kind = "name" THEN {e.id} ELSE {}

\* the value of an expression in a namespace
Eval(e, env) == IF e.kind = "name" THEN env[e.id] ELSE e.value

\* statement s is a `from __future__ import`, which must come first in a file
IsDirective(s) == s.expr.kind = "future"

\* placing statement i next puts it ahead of a pending `from __future__
\* import`: the file does not compile
Misplaces(pending, i) ==
    /\ ~IsDirective(Program[i])
    /\ \E j \in pending : IsDirective(Program[j])

\* the namespace of a module none of whose statements has run
EmptyNamespace == [n \in Names |-> Unbound]

\* the namespace after statement s, or the exception it raises
Bind(env, s) == [env EXCEPT ![s.target] = Eval(s.expr, env)]
Raises(env, s) == \E n \in Refs(s.expr) : env[n] = Unbound

Min(S) == CHOOSE x \in S : \A y \in S : x <= y

\* the k smallest elements of S
RECURSIVE Earliest(_, _)
Earliest(S, k) ==
    IF k = 0 \/ S = {} THEN {}
    ELSE {Min(S)} \cup Earliest(S \ {Min(S)}, k - 1)

Loaded(l) == todo[l] = {} /\ err[l] = ""

NoLookup == [load |-> 0, name |-> "", value |-> Unbound]

Init ==
    /\ ns = [l \in Loads |-> EmptyNamespace]
    /\ todo = [l \in Loads |-> Stmts]
    /\ err = [l \in Loads |-> ""]
    /\ outOfOrder = [l \in Loads |-> FALSE]
    /\ lookup = NoLookup

\* load l takes statement i as the next statement of its file: the file is
\* rejected by the compiler (nothing is bound), or the statement runs
Exec(l, i) ==
    /\ err[l] = ""
    /\ i \in todo[l]
    /\ IF Misplaces(todo[l], i)
         THEN /\ err' = [err EXCEPT ![l] = "SyntaxError"]
              /\ ns' = [ns EXCEPT ![l] = EmptyNamespace]
              /\ todo' = todo
         ELSE IF Raises(ns[l], Program[i])
         THEN /\ err' = [err EXCEPT ![l] = "NameError"]
              /\ UNCHANGED <<ns, todo>>
         ELSE /\ ns' = [ns EXCEPT ![l] = Bind(ns[l], Program[i])]
              /\ todo' = [todo EXCEPT ![l] = @ \ {i}]
              /\ err' = err
    /\ outOfOrder' = [outOfOrder EXCEPT ![l] = @ \/ i # Min(todo[l])]
    /\ lookup' = lookup

\* the interpreter: the next statement in source order
Step(l) ==
    /\ todo[l] # {}
    /\ Exec(l, Min(todo[l]))

\* a reordering of the file: any of the earliest OrderWindow pending statements
StepAnyOrder(l) ==
    \E i \in Earliest(todo[l], OrderWindow) : Exec(l, i)

\* the generator reads setting n of a loaded module
Lookup(l, n) ==
    /\ Loaded(l)
    /\ lookup' = [load |-> l, name |-> n, value |-> ns[l][n]]
    /\ UNCHANGED <<ns, todo, err, outOfOrder>>

Next ==
    \/ \E l \in Loads : Step(l)
    \/ \E l \in Loads, n \in GeneratorNames : Lookup(l, n)

Spec == Init /\ [][Next]_vars

\* load 1 runs the file as written, load 2 runs a reordering of it
NextAnyOrder ==
    \/ Step(1)
    \/ StepAnyOrder(2)

SpecAnyOrder == Init /\ [][NextAnyOrder]_vars

---------------------------------------------------------------------------
(* Properties of the loaded configuration.                                 *)

IsString(x) == x.type \in {"unicode", "str"}

\* e is a two-element tuple of non-empty strings
IsLinkEntry(e) ==
    /\ e.type = "tuple"
    /\ Len(e.v) = 2
    /\ \A k \in 1..2 : IsString(e.v[k]) /\ e.v[k].v # ""

\* C1: every entry of LINKS and of SOCIAL is a two-element (label, URL) pair
\* whose label and URL are non-empty strings; a finished load has bound both
\* lists.
C1_LinkEntriesArePairs ==
    \A l \in Loads, n \in {"LINKS", "SOCIAL"} :
        /\ Loaded(l) => ns[l][n] # Unbound
        /\ ns[l][n] # Unbound =>
              /\ ns[l][n].type = "tuple"
              /\ \A k \in DOMAIN ns[l][n].v : IsLinkEntry(ns[l][n].v[k])

C1_Witness ==
    /\ Loaded(1)
    /\ Len(ns[1]["LINKS"].v) = 4
    /\ Len(ns[1]["SOCIAL"].v) = 2

DraftRecord == PyDict([k \in {"status"} |-> PyStr("draft")])

\* C2: the file binds the {'status': 'draft'} record under DEFAUT_METADATA and
\* nothing under DEFAULT_METADATA; no load raises; a lookup of
\* DEFAULT_METADATA finds no binding, and no lookup by a generator name ever
\* returns the draft record.
C2_DefaultMetadataIgnored ==
    /\ \A l \in Loads : err[l] = ""
    /\ \A l \in Loads : ns[l]["DEFAULT_METADATA"] = Unbound
    /\ \A l \in Loads : Loaded(l) => ns[l]["DEFAUT_METADATA"] = DraftRecord
    /\ lookup # NoLookup => lookup.value # DraftRecord
    /\ lookup.name = "DEFAULT_METADATA" => lookup.value = Unbound

C2_Witness ==
    /\ lookup.name = "DEFAULT_METADATA"
    /\ lookup.load = 2
    /\ ns[2]["DEFAUT_METADATA"] = DraftRecord

\* a setting name that contains the word FEED
IsFeedName(n) ==
    \E i \in 1..Len(n) : i + 3 <= Len(n) /\ SubSeq(n, i, i + 3) = "FEED"

\* the feed-related keys load l has bound
FeedFields(l) == {n \in Names : IsFeedName(n) /\ ns[l][n] # Unbound}

\* the generator writes feed n of load l: the setting holds a non-empty path
FeedGenerated(l, n) ==
    /\ Loaded(l)
    /\ ns[l][n] # Unbound
    /\ ns[l][n] # PyNone
    /\ ~(IsString(ns[l][n]) /\ ns[l][n].v = "")

\* C3: every feed-related field is absent, None or a non-empty path string;
\* a finished load holds None in FEED_ALL_ATOM, CATEGORY_FEED_ATOM,
\* TRANSLATION_FEED_ATOM, AUTHOR_FEED_ATOM and AUTHOR_FEED_RSS, and no feed
\* is generated.
C3_FeedsDisabled ==
    \A l \in Loads :
        /\ \A n \in {m \in Names : IsFeedName(m)} :
              /\ \/ ns[l][n] \in {Unbound, PyNone}
                 \/ IsString(ns[l][n]) /\ ns[l][n].v # ""
              /\ ~FeedGenerated(l, n)
        /\ Loaded(l) =>
              \A n \in {"FEED_ALL_ATOM", "CATEGORY_FEED_ATOM",
                        "TRANSLATION_FEED_ATOM", "AUTHOR_FEED_ATOM",
                        "AUTHOR_FEED_RSS"} : ns[l][n] = PyNone

C3_Witness ==
    /\ Loaded(1)
    /\ lookup.load = 1
    /\ IsFeedName(lookup.name)
    /\ lookup.value = PyNone

\* C4 as stated: a finished load has bound exactly four feed-related keys.
C4_FourFeedToggles ==
    \A l \in Loads : Loaded(l) => Cardinality(FeedFields(l)) = 4

\* C4 amended: a finished load has bound exactly five feed-related keys
\* (FEED_ALL_ATOM, CATEGORY_FEED_ATOM, TRANSLATION_FEED_ATOM,
\* AUTHOR_FEED_ATOM, AUTHOR_FEED_RSS).
C4_FiveFeedToggles ==
    \A l \in Loads :
        Loaded(l) =>
            /\ Cardinality(FeedFields(l)) = 5
            /\ FeedFields(l) = {"FEED_ALL_ATOM", "CATEGORY_FEED_ATOM",
                                "TRANSLATION_FEED_ATOM", "AUTHOR_FEED_ATOM",
                                "AUTHOR_FEED_RSS"}

C4_Witness ==
    /\ Loaded(2)
    /\ "AUTHOR_FEED_RSS" \in FeedFields(2)

\* C5: a bound field keeps the value it was bound to in every later state,
\* and once a load has finished no step binds, rebinds or unbinds any name of
\* its namespace.
C5_FieldsImmutable ==
    [][\A l \in Loads :
          /\ \A n \in Names : ns[l][n] # Unbound => ns'[l][n] = ns[l][n]
          /\ Loaded(l) => ns'[l] = ns[l] /\ Loaded(l)']_vars

C5_Witness ==
    /\ Loaded(1)
    /\ lookup.load = 1
    /\ lookup.name = "SITEURL"

\* the content states the generator recognises
ContentStates == {"draft", "published"}

\* C7: the default-metadata record is a dict with the single key "status",
\* whose value is one of the generator's content states; a finished load has
\* bound it.
C7_DefaultMetadataStatus ==
    \A l \in Loads :
        LET d == ns[l]["DEFAUT_METADATA"] IN
        /\ Loaded(l) => d # Unbound
        /\ d # Unbound =>
              /\ d.type = "dict"
              /\ DOMAIN d.v = {"status"}
              /\ IsString(d.v["status"])
              /\ d.v["status"].v \in ContentStates

C7_Witness ==
    /\ Loaded(1)
    /\ ns[1]["DEFAUT_METADATA"].type = "dict"

\* C8: DEFAULT_PAGINATION is an int, positive, and equal to 10; a finished
\* load has bound it.
C8_PaginationIsTen ==
    \A l \in Loads :
        LET p == ns[l]["DEFAULT_PAGINATION"] IN
        /\ Loaded(l) => p # Unbound
        /\ p # Unbound => p.type = "int" /\ p.v > 0 /\ p.v = 10

C8_Witness ==
    /\ Loaded(2)
    /\ ns[2]["DEFAULT_PAGINATION"].type = "int"

\* C10: every name is the target of exactly one statement and no statement
\* reads another name; the file as written loads without error; a reordered
\* file either keeps the `from __future__ import` first, and then its load
\* raises nothing, runs to the end and ends with the namespace of the load of
\* the file as written, or puts an assignment ahead of that import, and then
\* it is rejected with a SyntaxError before anything is bound.
C10_LoadDeterministic ==
    /\ \A i, j \in Stmts : i # j => Program[i].target # Program[j].target
    /\ \A i \in Stmts : Refs(Program[i].expr) = {}
    /\ err[1] = ""
    /\ err[2] \in {"", "SyntaxError"}
    /\ err[2] = "SyntaxError" => ns[2] = EmptyNamespace /\ todo[2] = Stmts
    /\ (Loaded(1) /\ Loaded(2)) => ns[1] = ns[2]

C10_Witness ==
    /\ Loaded(1)
    /\ Loaded(2)
    /\ outOfOrder[2]

=============================================================================
